---------------------------- MODULE Spec2Model ----------------------------
(***************************************************************************)
(* A model of rmk's Vial command processor, src/rmk/src/via/vial.rs:       *)
(* process_vial and the combo index projection vial_combo /                *)
(* vial_combo_mut.  Arrays are functions on 0..n-1, as in the source; a    *)
(* heapless::Vec is a TLA+ sequence.                                       *)
(***************************************************************************)
EXTENDS Integers, Sequences, FiniteSets, TLC

(***************************************************************************)
(* Bounds of the model.                                                    *)
(***************************************************************************)
\* ComboSet commands that resolve, over one behaviour.
MaxEdits == 2
\* The same, where every command byte and every blob length is tried.
MaxEditsAll == 1
\* Capacity of the persistence channel.
ChannelCap == 1

(***************************************************************************)
(* Program constants.                                                      *)
(***************************************************************************)
VIAL_PROTOCOL_VERSION == 6
VIAL_EP_SIZE == 32
VIAL_COMBO_MAX_LENGTH == 4
\* ViaReport: input_data and output_data are [u8; 32].
REPORT_LEN == 32
\* Capacity of Combo::actions (storage may hold more triggers than Vial shows).
COMBO_MAX_LENGTH == 5
\* The number of combo slots of the store, [Combo; COMBO_MAX_NUM].
COMBO_MAX_NUM == 8

Byte == 0..255

\* The invocations of process_vial: 1 is the dispatcher's, 2 a re-entrant one.
Tasks == {1, 2}

VARIABLES
    input_data,        \* [task -> report.input_data], the response buffer
    output_data,       \* [task -> report.output_data], the request buffer
    pc,                \* [task -> "idle" | "recv" | "send" | "done" | "panic"]
    fault,             \* [task -> "none" | "index" | "borrow"], the panic's cause
    msg,               \* [task -> the ComboData a suspended send holds]
    combos,            \* keymap.combos: [0..n-1 -> [actions, output]]
    borrow,            \* the RefCell's flag: 0 unused, -1 exclusive, n > 0 shared
    channel,           \* FLASH_CHANNEL: the messages not yet received
    vial_keyboard_def, \* the definition blob
    sent,              \* history: every message submitted, in order
    nResolved,         \* history: ComboSet commands whose index resolved
    lastSet,           \* history: request of the last resolved ComboSet
    combos0            \* history: the store at start

vars == <<input_data, output_data, pc, fault, msg, combos, borrow, channel,
          vial_keyboard_def, sent, nResolved, lastSet, combos0>>

(***************************************************************************)
(* Arrays and slices.                                                      *)
(***************************************************************************)
ArrayLen(a) == Cardinality(DOMAIN a)

\* a[lo..hi] is in range, as Rust's slice indexing checks it.
SliceOK(a, lo, hi) == lo <= hi /\ hi <= ArrayLen(a)

\* a with a[lo + i] = src[i] for every i of src (src an array on 0..n-1).
CopyInto(a, lo, src) ==
    [i \in DOMAIN a |->
        IF i >= lo /\ i < lo + ArrayLen(src) THEN src[i - lo] ELSE a[i]]

\* <[u8]>::fill
Fill(a, v) == [i \in DOMAIN a |-> v]

\* a[lo..hi].fill(v)
FillRange(a, lo, hi, v) ==
    [i \in DOMAIN a |-> IF i >= lo /\ i < hi THEN v ELSE a[i]]

(***************************************************************************)
(* byteorder::LittleEndian                                                 *)
(***************************************************************************)
LE_read_u16(a, at) == a[at] + 256 * a[at + 1]

\* faulty variant: the base protocol's byte order
BE_u16(v) == [i \in 0..1 |-> IF i = 0 THEN (v \div 256) % 256 ELSE v % 256]

LE_u16(v) == [i \in 0..1 |-> IF i = 0 THEN v % 256 ELSE (v \div 256) % 256]

LE_u32(v) ==
    [i \in 0..3 |->
        CASE i = 0 -> v % 256
          [] i = 1 -> (v \div 256) % 256
          [] i = 2 -> (v \div 65536) % 256
          [] i = 3 -> (v \div 16777216) % 256]

\* The low 32 bits of n, computed without leaving TLC's integers.
Wrap32(n) == ((n \div 65536) % 65536) * 65536 + (n % 65536)

\* `as u32`
AsU32(n) == Wrap32(n)

\* usize arithmetic of a release build (wrapping); usize is 32 bits wide on the
\* firmware's targets.
usize_mul(a, b) == Wrap32(a * b)
usize_add(a, b) == Wrap32(a + b)

\* a[lo..hi] as an array on 0..hi-lo-1
Slice(a, lo, hi) == [i \in 0..(hi - lo - 1) |-> a[lo + i]]

(***************************************************************************)
(* The command enums (num_enum::FromPrimitive with a default variant).     *)
(***************************************************************************)
VialCommand_from_primitive(b) ==
    CASE b = 0 -> "GetKeyboardId"
      [] b = 1 -> "GetSize"
      [] b = 2 -> "GetKeyboardDef"
      [] b = 3 -> "GetEncoder"
      [] b = 4 -> "SetEncoder"
      [] b = 5 -> "GetUnlockStatus"
      [] b = 6 -> "UnlockStart"
      [] b = 7 -> "UnlockPoll"
      [] b = 8 -> "Lock"
      [] b = 9 -> "QmkSettingsQuery"
      [] b = 10 -> "QmkSettingsGet"
      [] b = 11 -> "QmkSettingsSet"
      [] b = 12 -> "QmkSettingsReset"
      [] b = 13 -> "DynamicEntryOp"
      [] OTHER -> "Unhandled"

VialDynamic_from_primitive(b) ==
    CASE b = 0 -> "DynamicVialGetNumberOfEntries"
      [] b = 1 -> "DynamicVialTapDanceGet"
      [] b = 2 -> "DynamicVialTapDanceSet"
      [] b = 3 -> "DynamicVialComboGet"
      [] b = 4 -> "DynamicVialComboSet"
      [] b = 5 -> "DynamicVialKeyOverrideGet"
      [] b = 6 -> "DynamicVialKeyOverrideSet"
      [] OTHER -> "Unhandled"

(***************************************************************************)
(* KeyAction and the keycode translation (via::keycode_convert).  A        *)
(* KeyAction is a tuple: <<"No">>, <<"Transparent">>, <<"Key", k>>,        *)
(* <<"WithModifier", m, k>>, or <<"TapHold", k>>, which has no Via code.   *)
(* Neither function is injective: an unknown wire code decodes to No, and  *)
(* an action without a wire code encodes as 0.                             *)
(***************************************************************************)
KeyAction_No == <<"No">>

from_via_keycode(kc) ==
    CASE kc = 0 -> KeyAction_No
      [] kc = 1 -> <<"Transparent">>
      [] kc >= 2 /\ kc <= 255 -> <<"Key", kc>>
      [] kc >= 256 /\ kc <= 8191 -> <<"WithModifier", kc \div 256, kc % 256>>
      [] OTHER -> KeyAction_No

to_via_keycode(a) ==
    CASE a[1] = "No" -> 0
      [] a[1] = "Transparent" -> 1
      [] a[1] = "Key" -> a[2]
      [] a[1] = "WithModifier" -> a[2] * 256 + a[3]
      [] OTHER -> 0

(***************************************************************************)
(* The combo index projection.  NONE is Option::None; Some((real, combo))  *)
(* is the real index, the combo being combos[real].                        *)
(***************************************************************************)
NONE == -1

\* faulty variant: a strict comparison
vial_combo_filter_strict(combo) == Len(combo.actions) < VIAL_COMBO_MAX_LENGTH

\* line 266: the filter's closure
vial_combo_filter(combo) == Len(combo.actions) <= VIAL_COMBO_MAX_LENGTH

\* iter().enumerate().filter(..).enumerate().find_map(..): real counts every
\* slot, i the slots the filter keeps
RECURSIVE vial_combo_iter(_, _, _, _)
vial_combo_iter(cs, idx, real, i) ==
    IF real >= ArrayLen(cs) THEN NONE
    ELSE IF vial_combo_filter(cs[real])
         THEN IF i = idx THEN real
              ELSE vial_combo_iter(cs, idx, real + 1, i + 1)
         ELSE vial_combo_iter(cs, idx, real + 1, i)

vial_combo(cs, idx) == vial_combo_iter(cs, idx, 0, 0)

\* faulty variant: the storage's capacity taken for the protocol's maximum
vial_combo_mut_filter_capacity(combo) == Len(combo.actions) <= COMBO_MAX_LENGTH

\* line 275: the filter's closure
vial_combo_mut_filter(combo) == Len(combo.actions) <= VIAL_COMBO_MAX_LENGTH

RECURSIVE vial_combo_mut_iter(_, _, _, _)
vial_combo_mut_iter(cs, idx, real, i) ==
    IF real >= ArrayLen(cs) THEN NONE
    ELSE IF vial_combo_mut_filter(cs[real])
         THEN IF i = idx THEN real
              ELSE vial_combo_mut_iter(cs, idx, real + 1, i + 1)
         ELSE vial_combo_mut_iter(cs, idx, real + 1, i)

\* faulty variant: the slot at position idx, the filter forgotten
vial_combo_mut_unfiltered(cs, idx) == IF idx < ArrayLen(cs) THEN idx ELSE NONE

vial_combo_mut(cs, idx) == vial_combo_mut_iter(cs, idx, 0, 0)

(***************************************************************************)
(* The arms of process_vial.  Each takes the response buffer as it stands  *)
(* and returns it as the arm leaves it.                                    *)
(***************************************************************************)
Write16(a, at, v) == CopyInto(a, at, LE_u16(v))

\* lines 69-74
GetKeyboardId(inp, id) ==
    CopyInto(CopyInto(inp, 0, LE_u32(VIAL_PROTOCOL_VERSION)), 4, id)

\* clone_from_slice panics unless both slices have the same length
GetKeyboardIdFaults(inp, id) ==
    ~SliceOK(inp, 0, 4) \/ ~SliceOK(inp, 4, 12) \/ ArrayLen(id) # 12 - 4

\* lines 75-78
GetSize(inp, def) == CopyInto(inp, 0, LE_u32(AsU32(ArrayLen(def))))

\* lines 81-83
KeyboardDefPage(out) == LE_read_u16(out, 2)

\* faulty variant: the page number taken for a byte offset
KeyboardDefStartUnscaled(page) == page

KeyboardDefStart(page) == usize_mul(page, VIAL_EP_SIZE)
KeyboardDefEnd0(start) == usize_add(start, VIAL_EP_SIZE)

\* faulty variant: the overflow test alone
KeyboardDefOverflowOnly(start, end, len) == end < start

\* lines 84-86: the early return
KeyboardDefOutOfRange(start, end, len) == end < start \/ start >= len

\* faulty variant: no clamp
KeyboardDefEndUnclamped(end, len) == end

\* lines 87-89: the clamp
KeyboardDefEnd(end, len) == IF end > len THEN len ELSE end

\* lines 90-95: the copy; i ranges over 0..end-start-1
KeyboardDefCopy(inp, def, start, end) == CopyInto(inp, 0, Slice(def, start, end))

\* the slice def[start..end] and every input_data[i] must be in range
KeyboardDefCopyFaults(inp, def, start, end) ==
    ~SliceOK(def, start, end) \/ end - start > ArrayLen(inp)

\* lines 79-100
GetKeyboardDef(inp, out, def) ==
    LET page == KeyboardDefPage(out)
        start == KeyboardDefStart(page)
        end0 == KeyboardDefEnd0(start)
        len == ArrayLen(def)
        end == KeyboardDefEnd(end0, len)
    IN  IF KeyboardDefOutOfRange(start, end0, len)
        THEN [input |-> inp, fault |-> FALSE]
        ELSE IF KeyboardDefCopyFaults(inp, def, start, end)
             THEN [input |-> inp, fault |-> TRUE]
             ELSE [input |-> KeyboardDefCopy(inp, def, start, end), fault |-> FALSE]

\* faulty variant: the buffer is not reset to 0xFF
GetUnlockStatusNoReset(inp) == [[inp EXCEPT ![0] = 1] EXCEPT ![1] = 0]

\* lines 101-109
GetUnlockStatus(inp) == [[Fill(inp, 255) EXCEPT ![0] = 1] EXCEPT ![1] = 0]

\* lines 110-112
QmkSettingsQuery(inp) == Fill(inp, 255)

\* faulty variant: the live number of eligible slots is reported
GetNumberOfEntriesLive(inp) ==
    [inp EXCEPT ![0] = 0,
                ![1] = Cardinality({r \in DOMAIN combos :
                                      Len(combos[r].actions) <= VIAL_COMBO_MAX_LENGTH}),
                ![2] = 0]

\* lines 116-123
GetNumberOfEntries(inp) == [inp EXCEPT ![0] = 0, ![1] = 8, ![2] = 0]

\* lines 124-131, 194-205: the placeholders
DynamicPlaceholder(inp) == Fill(inp, 0)

\* lines 208-230
GetEncoder(inp) == Fill(inp, 0)

\* lines 231-257: parsed and logged only
SetEncoder(inp) == inp

\* combo.actions.get(i).unwrap_or(&KeyAction::No)
ActionGet(actions, i) == IF i < Len(actions) THEN actions[i + 1] ELSE KeyAction_No

\* lines 139-148: the resolved arm of ComboGet
ComboGetEncode(inp, combo) ==
    LET w0 == Write16(inp, 1 + 0 * 2, to_via_keycode(ActionGet(combo.actions, 0)))
        w1 == Write16(w0, 1 + 1 * 2, to_via_keycode(ActionGet(combo.actions, 1)))
        w2 == Write16(w1, 1 + 2 * 2, to_via_keycode(ActionGet(combo.actions, 2)))
        w3 == Write16(w2, 1 + 3 * 2, to_via_keycode(ActionGet(combo.actions, 3)))
    IN  Write16(w3, 9, to_via_keycode(combo.output))

\* faulty variant: the return code of ComboGet is not written
ComboGetReturnCodeMissing(inp) == inp

\* line 134: the return code, 0 means success
ComboGetReturnCode(inp) == [inp EXCEPT ![0] = 0]

\* faulty variant: the return code is not written
ComboSetReturnCodeMissing(inp) == inp

\* line 155: the return code, 0 means success
ComboSetReturnCode(inp) == [inp EXCEPT ![0] = 0]

\* faulty variant: the whole buffer is cleared, as the placeholders do
ComboGetClearAll(inp) == Fill(inp, 0)

\* line 150: the unresolved arm of ComboGet
ComboGetClear(inp) == FillRange(inp, 1, 11, 0)

\* lines 132-152
ComboGet(inp, out, cs) ==
    LET inp0 == ComboGetReturnCode(inp)
        combo_idx == out[3]
        real == vial_combo(cs, combo_idx)
    IN  IF real # NONE
        THEN ComboGetEncode(inp0, cs[real])
        ELSE ComboGetClear(inp0)

\* heapless::Vec::push: Err (ignored at line 171) when the vector is full
HeaplessPush(v, a) == IF Len(v) < COMBO_MAX_LENGTH THEN Append(v, a) ELSE v

\* faulty variant: the sentinel is stored like any other action
RECURSIVE DecodeActionsAll(_, _, _)
DecodeActionsAll(out, i, acc) ==
    IF i >= 4 THEN acc
    ELSE DecodeActionsAll(out, i + 1,
             HeaplessPush(acc, from_via_keycode(LE_read_u16(out, 4 + i * 2))))

\* lines 165-173: the trigger keycodes, the sentinel dropped
RECURSIVE DecodeActions(_, _, _)
DecodeActions(out, i, acc) ==
    IF i >= 4 THEN acc
    ELSE LET action == from_via_keycode(LE_read_u16(out, 4 + i * 2))
         IN  DecodeActions(out, i + 1,
                 IF action # KeyAction_No THEN HeaplessPush(acc, action) ELSE acc)

\* lines 174-175
DecodeOutput(out) == from_via_keycode(LE_read_u16(out, 12))

\* faulty variant: the slot at the visible index is written
ComboSetStoreVisible(cs, real, out) ==
    IF out[3] \in DOMAIN cs
    THEN [cs EXCEPT ![out[3]] = [actions |-> DecodeActions(out, 0, <<>>),
                                 output |-> DecodeOutput(out)]]
    ELSE cs

\* lines 177-178
ComboSetStore(cs, real, out) ==
    [cs EXCEPT ![real] = [actions |-> DecodeActions(out, 0, <<>>),
                          output |-> DecodeOutput(out)]]

\* faulty variant: the loop stops one entry short
PadActionsShort(actions) ==
    [i \in 0..3 |-> IF i < 3 THEN ActionGet(actions, i) ELSE KeyAction_No]

\* lines 180-183: [KeyAction::No; 4], then actions[i] = action
PadActions(actions) == [i \in 0..3 |-> ActionGet(actions, i)]

\* actions[i] with i >= 4 is out of range
PadActionsFaults(actions) == Len(actions) > 4

\* faulty variant: the visible index is sent
ComboDataVisibleIndex(real_idx, combo_idx, combo) ==
    [kind |-> "WriteCombo", idx |-> combo_idx,
     actions |-> PadActions(combo.actions), output |-> combo.output]

\* lines 184-191: the message, from the slot as just stored
ComboData(real_idx, combo_idx, combo) ==
    [kind |-> "WriteCombo", idx |-> real_idx,
     actions |-> PadActions(combo.actions), output |-> combo.output]

NoMsg == [kind |-> "None", idx |-> NONE,
          actions |-> [i \in 0..3 |-> KeyAction_No], output |-> KeyAction_No]

\* a message of another producer of FLASH_CHANNEL
OtherMsg == [kind |-> "Other", idx |-> NONE,
             actions |-> [i \in 0..3 |-> KeyAction_No], output |-> KeyAction_No]

(***************************************************************************)
(* core::cell::RefCell's borrow flag.                                      *)
(***************************************************************************)
UNUSED == 0
RefCellBorrow(b) == b + 1
RefCellBorrowFaults(b) == b < UNUSED
RefCellBorrowMut(b) == 0 - 1
RefCellBorrowMutFaults(b) == b # UNUSED
RefCellDropRef(b) == b - 1
RefCellDropRefMut(b) == UNUSED

\* lines 137-152: the Ref lives to the end of the arm, which does not await
ComboGetBorrowAtReturn(b) == RefCellDropRef(RefCellBorrow(b))

\* faulty variant: the RefMut lives across the send
ComboSetBorrowHeld(b) == RefCellBorrowMut(b)

\* lines 157-185: the RefMut lives to the end of the block, before the send
ComboSetBorrowAtAwait(b) == RefCellDropRefMut(RefCellBorrowMut(b))

(***************************************************************************)
(* process_vial up to its only suspension point, the send of line 186.     *)
(* The result: the response buffer, the store, the RefCell's flag, the     *)
(* message to send (NoMsg: none), and the panic the call ran into ("none",  *)
(* "index": an access out of range, "borrow": the RefCell already          *)
(* borrowed).                                                              *)
(***************************************************************************)
Result(inp, cs, b, m, panic) ==
    [input |-> inp, combos |-> cs, borrow |-> b, msg |-> m, fault |-> panic]

\* faulty variant: no early return, slot 0 is sent when the index does not resolve
ComboSetSendsAlways(inp, out, cs, b) ==
    LET inp0 == ComboSetReturnCode(inp)
        combo_idx == out[3]
        real_idx == vial_combo_mut(cs, combo_idx)
        stored == ComboSetStore(cs, real_idx, out)
    IN  IF real_idx = NONE
        THEN Result(inp0, cs, ComboSetBorrowAtAwait(b),
                    ComboData(0, combo_idx, cs[0]), "none")
        ELSE Result(inp0, stored, ComboSetBorrowAtAwait(b),
                    ComboData(real_idx, combo_idx, stored[real_idx]), "none")

\* faulty variant: the slot is edited in a copy, the store is not written
ComboSetOnCopy(inp, out, cs, b) ==
    LET inp0 == ComboSetReturnCode(inp)
        combo_idx == out[3]
        real_idx == vial_combo_mut(cs, combo_idx)
        stored == ComboSetStore(cs, real_idx, out)
    IN  IF real_idx = NONE
        THEN Result(inp0, cs, b, NoMsg, "none")
        ELSE Result(inp0, cs, ComboSetBorrowAtAwait(b),
                    ComboData(real_idx, combo_idx, stored[real_idx]), "none")

\* lines 153-193
ComboSet(inp, out, cs, b) ==
    LET inp0 == ComboSetReturnCode(inp)
        combo_idx == out[3]
        real_idx == vial_combo_mut(cs, combo_idx)
        stored == ComboSetStore(cs, real_idx, out)
    IN  IF RefCellBorrowMutFaults(b)
        THEN Result(inp0, cs, b, NoMsg, "borrow")
        ELSE IF real_idx = NONE
        THEN Result(inp0, cs, b, NoMsg, "none")
        ELSE IF PadActionsFaults(stored[real_idx].actions)
        THEN Result(inp0, stored, b, NoMsg, "index")
        ELSE Result(inp0, stored, ComboSetBorrowAtAwait(b),
                    ComboData(real_idx, combo_idx, stored[real_idx]), "none")

\* lines 113-207
DynamicEntryOp(inp, out, cs, b) ==
    LET vial_dynamic == VialDynamic_from_primitive(out[2])
    IN  CASE vial_dynamic = "DynamicVialGetNumberOfEntries" ->
                Result(GetNumberOfEntries(inp), cs, b, NoMsg, "none")
          [] vial_dynamic = "DynamicVialComboGet" ->
                IF RefCellBorrowFaults(b)
                THEN Result(ComboGetReturnCode(inp), cs, b, NoMsg, "borrow")
                ELSE Result(ComboGet(inp, out, cs), cs, ComboGetBorrowAtReturn(b),
                            NoMsg, "none")
          [] vial_dynamic = "DynamicVialComboSet" -> ComboSet(inp, out, cs, b)
          [] OTHER -> Result(DynamicPlaceholder(inp), cs, b, NoMsg, "none")

\* faulty variant: the default arm clears the buffer, as line 204 does
UnhandledCleared(inp) == Fill(inp, 0)

\* line 258: the default arm, `_ => ()`
Unhandled(inp) == inp

\* lines 59-260
process_vial(inp, out, id, def, cs, b) ==
    LET vial_command == VialCommand_from_primitive(out[1])
    IN  CASE vial_command = "GetKeyboardId" ->
                IF GetKeyboardIdFaults(inp, id)
                THEN Result(inp, cs, b, NoMsg, "index")
                ELSE Result(GetKeyboardId(inp, id), cs, b, NoMsg, "none")
          [] vial_command = "GetSize" ->
                Result(GetSize(inp, def), cs, b, NoMsg, "none")
          [] vial_command = "GetKeyboardDef" ->
                LET r == GetKeyboardDef(inp, out, def)
                IN  Result(r.input, cs, b, NoMsg,
                           IF r.fault THEN "index" ELSE "none")
          [] vial_command = "GetUnlockStatus" ->
                Result(GetUnlockStatus(inp), cs, b, NoMsg, "none")
          [] vial_command = "QmkSettingsQuery" ->
                Result(QmkSettingsQuery(inp), cs, b, NoMsg, "none")
          [] vial_command = "DynamicEntryOp" -> DynamicEntryOp(inp, out, cs, b)
          [] vial_command = "GetEncoder" ->
                Result(GetEncoder(inp), cs, b, NoMsg, "none")
          [] vial_command = "SetEncoder" ->
                Result(SetEncoder(inp), cs, b, NoMsg, "none")
          [] OTHER -> Result(Unhandled(inp), cs, b, NoMsg, "none")

(***************************************************************************)
(* The inputs: the static blobs, the stores at start, the requests.        *)
(***************************************************************************)
\* vial_keyboard_Id: 8 bytes
VialKeyboardId == [i \in 0..7 |-> 185 - 3 * i]

\* a definition blob of n bytes, no byte of which is 0, 255 or a stale byte
Blob(n) == [i \in 0..(n - 1) |-> 1 + ((i * 7) % 100)]

BlobLens == {0, 1, 32, 33, 70}

Combo(actions, output) == [actions |-> actions, output |-> output]

KeyA == <<"Key", 4>>
KeyB == <<"WithModifier", 1, 5>>
KeyC == <<"Key", 6>>
TapHold == <<"TapHold", 4>>

\* slot 0 holds 5 triggers, so that it is not visible: visible 0, 1 are real 1, 2
Store1 ==
    [r \in 0..2 |->
        CASE r = 0 -> Combo(<<KeyA, KeyB, KeyC, KeyA, KeyB>>, KeyC)
          [] r = 1 -> Combo(<<KeyA, KeyB, KeyC, KeyA>>, KeyB)
          [] r = 2 -> Combo(<<>>, KeyAction_No)]

\* slot 1 holds 5 triggers: visible 0, 1 are real 0, 2
Store2 ==
    [r \in 0..2 |->
        CASE r = 0 -> Combo(<<KeyA>>, KeyB)
          [] r = 1 -> Combo(<<KeyB, KeyA, KeyC, KeyB, KeyA>>, KeyA)
          [] r = 2 -> Combo(<<TapHold, KeyC>>, TapHold)]

InitStores == {Store1, Store2}

\* a request: the Vial discriminator, the command byte, then the fields
Request(cmd, fields) ==
    [i \in 0..(REPORT_LEN - 1) |->
        CASE i = 0 -> 254
          [] i = 1 -> cmd
          [] i - 2 \in DOMAIN fields -> fields[i - 2]
          [] OTHER -> 0]

\* an array on 0..n-1 of a tuple
ArrayOf(t) == [i \in 0..(Len(t) - 1) |-> t[i + 1]]

Concat(a, b) ==
    [i \in 0..(ArrayLen(a) + ArrayLen(b) - 1) |->
        IF i < ArrayLen(a) THEN a[i] ELSE b[i - ArrayLen(a)]]

CommandBytes == {0, 1, 3, 4, 5, 6, 9, 127}
Pages == {0, 2, 3}
DefPages == {0, 1, 2, 3, 2047, 2048, 65535}
SubCommands == {0, 1, 127}
GetIndexes == {0, 1, 2}
SetIndexes == {0, 1, 2}

\* wire keycodes: 0 No, 4 and 6 keys, 261 a key with a modifier (two bytes),
\* 31863 a code the translation does not know
Payloads ==
    { <<4, 261, 0, 0, 6>>, <<0, 4, 0, 261, 6>>, <<31863, 0, 0, 0, 0>>,
      <<4, 261, 6, 4, 31863>> }

PayloadBytes(p) ==
    [i \in 0..9 |-> IF i % 2 = 0 THEN p[(i \div 2) + 1] % 256
                                 ELSE p[(i \div 2) + 1] \div 256]

SimpleRequests == {Request(c, ArrayOf(<<>>)) : c \in CommandBytes}
DefRequests == {Request(2, LE_u16(p)) : p \in Pages}
AllDefRequests == {Request(2, LE_u16(p)) : p \in DefPages}
DynamicRequests == {Request(13, ArrayOf(<<s>>)) : s \in SubCommands}
ComboGetRequests == {Request(13, ArrayOf(<<3, k>>)) : k \in GetIndexes}
ComboSetRequests ==
    {Request(13, Concat(ArrayOf(<<4, k>>), PayloadBytes(p))) :
        k \in SetIndexes, p \in Payloads}

Requests ==
    SimpleRequests \cup DefRequests \cup DynamicRequests
        \cup ComboGetRequests \cup ComboSetRequests

IsDynamic(out, sub) ==
    /\ VialCommand_from_primitive(out[1]) = "DynamicEntryOp"
    /\ VialDynamic_from_primitive(out[2]) = sub
IsComboSet(out) == IsDynamic(out, "DynamicVialComboSet")
IsComboGet(out) == IsDynamic(out, "DynamicVialComboGet")

\* the response buffer as the transport hands it over: the request echoed,
\* or bytes left from before
Ramp == [i \in 0..(REPORT_LEN - 1) |-> 128 + i]
StaleInputs(req) == {req, Ramp}

NoReq == [i \in 0..(REPORT_LEN - 1) |-> 0]

(***************************************************************************)
(* What the history variables observe, stated without the projection's     *)
(* code: the eligible slots, and the slot a visible index stands for.      *)
(***************************************************************************)
Eligible(cs) == {r \in DOMAIN cs : Len(cs[r].actions) <= 4}

Resolves(cs, k) == k < Cardinality(Eligible(cs))

\* the real index of the (k+1)-th eligible slot in storage order
RealIndex(cs, k) ==
    CHOOSE r \in Eligible(cs) : Cardinality({q \in Eligible(cs) : q < r}) = k

(***************************************************************************)
(* The state machine.                                                      *)
(***************************************************************************)
InitWith(lens, channels) ==
    /\ input_data = [t \in Tasks |-> NoReq]
    /\ output_data = [t \in Tasks |-> NoReq]
    /\ pc = [t \in Tasks |-> "idle"]
    /\ fault = [t \in Tasks |-> "none"]
    /\ msg = [t \in Tasks |-> NoMsg]
    /\ combos \in InitStores
    /\ combos0 = combos
    /\ borrow = UNUSED
    /\ channel \in channels
    /\ vial_keyboard_def \in {Blob(n) : n \in lens}
    /\ sent = <<>>
    /\ nResolved = 0
    /\ lastSet = NoReq

\* The channel may hold a message of another producer at start.
Init == InitWith({70}, {<<>>, <<OtherMsg>>})

\* The transport hands a report to an invocation of process_vial.
Deliver(t, reqs, edits) ==
    /\ pc[t] \in {"idle", "done"}
    /\ \E req \in reqs :
        /\ IsComboSet(req) /\ Resolves(combos, req[3]) => nResolved < edits
        /\ \E stale \in StaleInputs(req) :
            /\ output_data' = [output_data EXCEPT ![t] = req]
            /\ input_data' = [input_data EXCEPT ![t] = stale]
    /\ pc' = [pc EXCEPT ![t] = "recv"]
    /\ UNCHANGED <<fault, msg, combos, borrow, channel, vial_keyboard_def, sent,
                   nResolved, lastSet, combos0>>

\* embassy_sync Channel::send polls try_send: with room the message is
\* enqueued at once, without room the sender is suspended.
ChannelHasRoom == Len(channel) < ChannelCap

\* Invocation t holds a ComboSet whose visible index stands for a slot.
ResolvedSet(t) ==
    IsComboSet(output_data[t]) /\ Resolves(combos, output_data[t][3])

\* process_vial from its entry to its return or to its suspension.
ProcessVial(t) ==
    /\ pc[t] = "recv"
    /\ LET r == process_vial(input_data[t], output_data[t], VialKeyboardId,
                             vial_keyboard_def, combos, borrow)
       IN  IF r.fault # "none"
           THEN /\ pc' = [pc EXCEPT ![t] = "panic"]
                /\ fault' = [fault EXCEPT ![t] = r.fault]
                /\ UNCHANGED <<input_data, msg, combos, borrow, channel, sent,
                               nResolved, lastSet>>
           ELSE /\ input_data' = [input_data EXCEPT ![t] = r.input]
                /\ combos' = r.combos
                /\ borrow' = r.borrow
                /\ nResolved' = IF ResolvedSet(t) THEN nResolved + 1 ELSE nResolved
                /\ UNCHANGED fault
                /\ lastSet' = IF ResolvedSet(t) THEN output_data[t] ELSE lastSet
                /\ IF r.msg = NoMsg
                   THEN /\ pc' = [pc EXCEPT ![t] = "done"]
                        /\ UNCHANGED <<msg, channel, sent>>
                   ELSE IF ChannelHasRoom
                   THEN /\ channel' = Append(channel, r.msg)
                        /\ sent' = Append(sent, r.msg)
                        /\ pc' = [pc EXCEPT ![t] = "done"]
                        /\ UNCHANGED msg
                   ELSE /\ pc' = [pc EXCEPT ![t] = "send"]
                        /\ msg' = [msg EXCEPT ![t] = r.msg]
                        /\ UNCHANGED <<channel, sent>>
    /\ UNCHANGED <<output_data, vial_keyboard_def, combos0>>

\* The suspended send of line 192 completes once the channel has room.
SendComplete(t) ==
    /\ pc[t] = "send"
    /\ ChannelHasRoom
    /\ channel' = Append(channel, msg[t])
    /\ sent' = Append(sent, msg[t])
    /\ msg' = [msg EXCEPT ![t] = NoMsg]
    /\ pc' = [pc EXCEPT ![t] = "done"]
    /\ UNCHANGED <<input_data, output_data, fault, combos, borrow,
                   vial_keyboard_def, nResolved, lastSet, combos0>>

\* The storage task receives a message.
FlashReceive ==
    /\ channel # <<>>
    /\ channel' = Tail(channel)
    /\ UNCHANGED <<input_data, output_data, pc, fault, msg, combos, borrow,
                   vial_keyboard_def, sent, nResolved, lastSet, combos0>>

\* One report at a time: the dispatcher's invocation alone.
HostSend == Deliver(1, Requests, MaxEdits)
Process == ProcessVial(1)
Resume == SendComplete(1)

Next == HostSend \/ Process \/ Resume \/ FlashReceive

Spec == Init /\ [][Next]_vars

(***************************************************************************)
(* The definition blob alone: every length of BlobLens, every page of      *)
(* DefPages.                                                               *)
(***************************************************************************)
InitDef == InitWith(BlobLens, {<<>>})

HostSendDef == Deliver(1, AllDefRequests \cup {Request(1, ArrayOf(<<>>))}, MaxEdits)

NextDef == HostSendDef \/ Process

SpecDef == InitDef /\ [][NextDef]_vars

(***************************************************************************)
(* Re-entrancy: while invocation 1 is suspended at the send, the executor  *)
(* enters process_vial again, with a report of its own.                    *)
(***************************************************************************)
ReentrantRequests ==
    { Request(13, ArrayOf(<<3, 0>>)), Request(13, ArrayOf(<<3, 2>>)),
      Request(13, Concat(ArrayOf(<<4, 0>>), PayloadBytes(<<4, 261, 0, 0, 6>>))),
      Request(13, Concat(ArrayOf(<<4, 1>>), PayloadBytes(<<0, 4, 0, 261, 6>>))),
      Request(13, Concat(ArrayOf(<<4, 2>>), PayloadBytes(<<4, 261, 0, 0, 6>>))),
      Request(13, ArrayOf(<<0>>)), Request(5, ArrayOf(<<>>)) }

HostSendOuter == Deliver(1, ReentrantRequests, MaxEdits)

HostSendNested == pc[1] = "send" /\ Deliver(2, ReentrantRequests, MaxEdits)

NextReentrant ==
    \/ HostSendOuter
    \/ HostSendNested
    \/ \E t \in Tasks : ProcessVial(t)
    \/ \E t \in Tasks : SendComplete(t)
    \/ FlashReceive

SpecReentrant == Init /\ [][NextReentrant]_vars

(***************************************************************************)
(* What the claims speak of.                                               *)
(***************************************************************************)
\* a step in which invocation t runs process_vial
ProcessStep(t) == pc[t] = "recv" /\ pc'[t] # "recv"

\* the k-th trigger keycode and the output keycode of a ComboSet request
SetTrigger(out, k) == out[4 + 2 * k] + 256 * out[5 + 2 * k]
SetOutput(out) == out[12] + 256 * out[13]

\* the wire code of the no-action sentinel
SentinelCode == to_via_keycode(KeyAction_No)

\* the translation functions are mutually inverse on wire code w
TranslationInverse(w) == to_via_keycode(from_via_keycode(w)) = w

Last(q) == q[Len(q)]

(***************************************************************************)
(* The round trip of a ComboSet and a ComboGet, over trigger lists of the  *)
(* shape [A, B]: two keys, a sentinel before a key, a key before a         *)
(* sentinel, a code the translation does not know, no key at all.          *)
(***************************************************************************)
RoundPayloads ==
    { <<4, 261, 0, 0, 6>>, <<0, 261, 0, 0, 6>>, <<261, 0, 0, 0, 1>>,
      <<31863, 4, 0, 0, 6>>, <<0, 0, 0, 0, 0>> }

RoundRequests ==
    {Request(13, ArrayOf(<<3, k>>)) : k \in GetIndexes}
        \cup {Request(13, Concat(ArrayOf(<<4, k>>), PayloadBytes(p))) :
                k \in SetIndexes, p \in RoundPayloads}

HostSendRound == Deliver(1, RoundRequests, MaxEdits)

NextRound == HostSendRound \/ Process \/ Resume \/ FlashReceive

SpecRound == Init /\ [][NextRound]_vars

(***************************************************************************)
(* C1.  Round trip: after ComboSet(idx, triggers = [A, B], output = O),    *)
(* with the translation functions mutually inverse on A, B and O, a        *)
(* ComboGet(idx) with no ComboSet in between answers 0 in input[0], the    *)
(* codes of A, B and twice the sentinel's, little-endian and in that       *)
(* order, in input[1..9], and the code of O in input[9..11].               *)
(***************************************************************************)
\* ComboGet(idx) has returned, the last ComboSet was ComboSet(idx, [A, B], O)
C1_Case(t) ==
    /\ pc[t] = "done"
    /\ IsComboGet(output_data[t])
    /\ IsComboSet(lastSet)
    /\ output_data[t][3] = lastSet[3]
    /\ SetTrigger(lastSet, 2) = SentinelCode
    /\ SetTrigger(lastSet, 3) = SentinelCode
    /\ TranslationInverse(SetTrigger(lastSet, 0))
    /\ TranslationInverse(SetTrigger(lastSet, 1))
    /\ TranslationInverse(SetOutput(lastSet))

\* the response is the request's [A, B, No, No] and O, byte by byte
C1_Response(t) ==
    /\ input_data[t][0] = 0
    /\ \A i \in 1..4 : input_data[t][i] = lastSet[3 + i]
    /\ input_data[t][5] = SentinelCode % 256
    /\ input_data[t][6] = SentinelCode \div 256
    /\ input_data[t][7] = SentinelCode % 256
    /\ input_data[t][8] = SentinelCode \div 256
    /\ input_data[t][9] = lastSet[12]
    /\ input_data[t][10] = lastSet[13]

\* C1 as stated: for any A and B.  It fails for A the sentinel and B a key:
\* ComboSet drops the sentinel, and ComboGet answers [B, No, No, No].
C1_RoundTripAnyTriggers == \A t \in Tasks : C1_Case(t) => C1_Response(t)

\* no sentinel stands before a key in [A, B]
C1_KeysFirst == SetTrigger(lastSet, 0) = SentinelCode => SetTrigger(lastSet, 1) = SentinelCode

\* C1, amended: the round trip holds when no sentinel stands before a key in
\* [A, B] (A and B both keys, or B the sentinel, or both).
C1_RoundTrip == \A t \in Tasks : C1_Case(t) /\ C1_KeysFirst => C1_Response(t)

\* the round trip of two keys, the second a two-byte code, through a slot
\* whose real index is not the visible one
C1_Witness ==
    /\ C1_Case(1)
    /\ SetTrigger(lastSet, 0) # SentinelCode
    /\ SetTrigger(lastSet, 1) >= 256
    /\ SetOutput(lastSet) # SentinelCode
    /\ RealIndex(combos, lastSet[3]) # lastSet[3]
    /\ combos # combos0

(***************************************************************************)
(* C2.  A ComboSet whose visible index does not resolve (index >= number   *)
(* of eligible slots) changes no combo slot and submits nothing: the store *)
(* and the channel are after the call what they were before it.            *)
(***************************************************************************)
C2_UnresolvedSetStep ==
    \A t \in Tasks :
        ( /\ ProcessStep(t)
          /\ IsComboSet(output_data[t])
          /\ ~Resolves(combos, output_data[t][3]) )
        => /\ combos' = combos
           /\ channel' = channel
           /\ sent' = sent
           /\ pc'[t] = "done"

\* C2: an unresolved ComboSet leaves the store and the channel unchanged.
C2_UnresolvedSet == [][C2_UnresolvedSetStep]_vars

\* an unresolved ComboSet has returned; the store has been edited before and
\* the channel holds a message
C2_Witness ==
    /\ pc[1] = "done"
    /\ IsComboSet(output_data[1])
    /\ ~Resolves(combos, output_data[1][3])
    /\ combos # combos0
    /\ channel # <<>>

(***************************************************************************)
(* C3.  Exactly one persistence message per successful ComboSet: the       *)
(* messages submitted, together with the sends still suspended, are as     *)
(* many as the ComboSet commands whose index resolved, so that the two     *)
(* numbers are equal whenever no invocation is suspended; and a message is *)
(* submitted only by a ComboSet whose index resolved, one at a time.       *)
(***************************************************************************)
Suspended == {t \in Tasks : pc[t] = "send"}

C3_Count == Len(sent) + Cardinality(Suspended) = nResolved

C3_SubmitStep ==
    sent' # sent =>
        /\ Len(sent') = Len(sent) + 1
        /\ Last(sent').kind = "WriteCombo"
        /\ \E t \in Tasks :
            /\ IsComboSet(output_data[t])
            /\ pc'[t] = "done"
            /\ \/ pc[t] = "send"
               \/ pc[t] = "recv" /\ Resolves(combos, output_data[t][3])

\* C3: one message per resolved ComboSet, and none from anything else.
C3_OneMessagePerSet == []C3_Count /\ [][C3_SubmitStep]_vars

\* two resolved ComboSets and an unresolved one have returned, two messages
\* have been submitted
C3_Witness ==
    /\ pc[1] = "done"
    /\ IsComboSet(output_data[1])
    /\ ~Resolves(combos, output_data[1][3])
    /\ nResolved = 2
    /\ Len(sent) = 2

(***************************************************************************)
(* Every command, sub-command and blob length together.                    *)
(***************************************************************************)
AllCommandBytes == 0..15 \cup {127, 255}
AllSubCommands == 0..8 \cup {127, 255}
AllIndexes == {0, 1, 2, 3, 255}
AllSetIndexes == {0, 2, 255}
AllPayloads == {<<0, 4, 0, 261, 6>>, <<4, 261, 6, 4, 31863>>}

AllRequests ==
    {Request(c, ArrayOf(<<>>)) : c \in AllCommandBytes}
        \cup AllDefRequests
        \cup {Request(13, ArrayOf(<<s>>)) : s \in AllSubCommands}
        \cup {Request(13, ArrayOf(<<3, k>>)) : k \in AllIndexes}
        \cup {Request(13, Concat(ArrayOf(<<4, k>>), PayloadBytes(p))) :
                k \in AllSetIndexes, p \in AllPayloads}

InitAll == InitWith(BlobLens, {<<OtherMsg>>})

HostSendAll == Deliver(1, AllRequests, MaxEditsAll)

NextAll == HostSendAll \/ Process \/ Resume \/ FlashReceive

SpecAll == InitAll /\ [][NextAll]_vars

(***************************************************************************)
(* The projection over every pattern of eligible and ineligible slots.     *)
(***************************************************************************)
\* a slot of n triggers
SlotOfLen(r, n) ==
    Combo([i \in 1..n |-> <<"Key", 10 * (r + 1) + i>>], <<"Key", 100 + r>>)

ProjLens == {0, 4, 5}

ProjStores == {[r \in 0..2 |-> SlotOfLen(r, ls[r])] : ls \in [0..2 -> ProjLens]}

ProjIndexes == {0, 1, 2, 3, 255}

ProjRequests ==
    {Request(13, ArrayOf(<<3, k>>)) : k \in ProjIndexes}
        \cup {Request(13, Concat(ArrayOf(<<4, k>>), PayloadBytes(<<4, 261, 0, 0, 6>>))) :
                k \in ProjIndexes}

InitProj ==
    /\ input_data = [t \in Tasks |-> NoReq]
    /\ output_data = [t \in Tasks |-> NoReq]
    /\ pc = [t \in Tasks |-> "idle"]
    /\ fault = [t \in Tasks |-> "none"]
    /\ msg = [t \in Tasks |-> NoMsg]
    /\ combos \in ProjStores
    /\ combos0 = combos
    /\ borrow = UNUSED
    /\ channel = <<>>
    /\ vial_keyboard_def = Blob(0)
    /\ sent = <<>>
    /\ nResolved = 0
    /\ lastSet = NoReq

HostSendProj == Deliver(1, ProjRequests, MaxEdits)

NextProj == HostSendProj \/ Process \/ Resume \/ FlashReceive

SpecProj == InitProj /\ [][NextProj]_vars

(***************************************************************************)
(* C4.  No borrow of the store is held across the suspension point: in     *)
(* every state where an invocation is suspended at the send the RefCell is *)
(* unborrowed, and no invocation, re-entrant ones included, ever runs into *)
(* a borrow conflict.                                                      *)
(***************************************************************************)
C4_NoBorrowAcrossSend ==
    /\ \A t \in Tasks : pc[t] = "send" => borrow = UNUSED
    /\ \A t \in Tasks : fault[t] # "borrow"

\* invocation 1 is suspended at the send; the re-entrant invocation 2 has
\* borrowed the store exclusively, edited a slot and is suspended as well
C4_Witness ==
    /\ pc[1] = "send"
    /\ pc[2] = "send"
    /\ IsComboSet(output_data[2])
    /\ msg[2].kind = "WriteCombo"
    /\ msg[1] # msg[2]

(***************************************************************************)
(* C5.  For every page p with p*32 < len(blob), GetKeyboardDef writes      *)
(* blob[p*32 .. min(p*32+32, len)] to the start of the response buffer and *)
(* leaves every other byte as it was.                                      *)
(***************************************************************************)
IsGetKeyboardDef(out) == VialCommand_from_primitive(out[1]) = "GetKeyboardDef"

PageOf(out) == out[2] + 256 * out[3]

BlobLen == ArrayLen(vial_keyboard_def)

\* bytes of page p: min(32, len - p*32)
PageBytes(p) == IF BlobLen - p * 32 < 32 THEN BlobLen - p * 32 ELSE 32

C5_PageStep ==
    \A t \in Tasks :
        ( /\ ProcessStep(t)
          /\ IsGetKeyboardDef(output_data[t])
          /\ PageOf(output_data[t]) * 32 < BlobLen )
        => /\ pc'[t] = "done"
           /\ input_data'[t] =
                [i \in 0..31 |->
                    IF i < PageBytes(PageOf(output_data[t]))
                    THEN vial_keyboard_def[PageOf(output_data[t]) * 32 + i]
                    ELSE input_data[t][i]]

\* C5: an in-range page is copied exactly, the rest of the buffer is kept.
C5_Page == [][C5_PageStep]_vars

\* a short last page that is not the first: its bytes, then the stale ones
C5_Witness ==
    /\ pc[1] = "done"
    /\ IsGetKeyboardDef(output_data[1])
    /\ PageOf(output_data[1]) > 0
    /\ PageOf(output_data[1]) * 32 < BlobLen
    /\ PageBytes(PageOf(output_data[1])) < 32
    /\ input_data[1][0] = vial_keyboard_def[PageOf(output_data[1]) * 32]
    /\ \A i \in PageBytes(PageOf(output_data[1]))..31 : input_data[1][i] = Ramp[i]

(***************************************************************************)
(* C6.  For every page p with p*32 >= len(blob), GetKeyboardDef returns    *)
(* without modifying a byte of the response buffer.  (p is a u16 and the   *)
(* word is at least 32 bits wide, so p*32 and p*32+32 do not overflow.)    *)
(***************************************************************************)
C6_OutOfRangeStep ==
    \A t \in Tasks :
        ( /\ ProcessStep(t)
          /\ IsGetKeyboardDef(output_data[t])
          /\ PageOf(output_data[t]) * 32 >= BlobLen )
        => /\ pc'[t] = "done"
           /\ input_data' = input_data

\* C6: an out-of-range page modifies no byte of the response buffer.
C6_OutOfRange == [][C6_OutOfRangeStep]_vars

\* the page that starts right at the end of a blob of whole pages
C6_Witness ==
    /\ pc[1] = "done"
    /\ IsGetKeyboardDef(output_data[1])
    /\ BlobLen > 0
    /\ PageOf(output_data[1]) * 32 = BlobLen
    /\ input_data[1] = Ramp

(***************************************************************************)
(* C7.  No operation faults: whatever the request, the blob's length and   *)
(* the store, process_vial makes no out-of-range access.                   *)
(***************************************************************************)
C7_NoFault == \A t \in Tasks : fault[t] # "index" /\ pc[t] # "panic"

\* a clamped last page has been copied, after a ComboSet of four triggers
\* has filled the padded array
C7_Witness ==
    /\ pc[1] = "done"
    /\ IsGetKeyboardDef(output_data[1])
    /\ PageOf(output_data[1]) * 32 < BlobLen
    /\ PageOf(output_data[1]) * 32 + 32 > BlobLen
    /\ sent # <<>>
    /\ Last(sent).actions[3] # KeyAction_No

(***************************************************************************)
(* C8.  The message of a successful ComboSet carries the real index of the *)
(* resolved slot, the slot's newly stored triggers padded at the end with  *)
(* the sentinel to 4 entries, and the newly stored output: it equals the   *)
(* slot right after the edit, and it is submitted as it was built.         *)
(***************************************************************************)
MessageOfSlot(m, cs, r) ==
    /\ m.kind = "WriteCombo"
    /\ m.idx = r
    /\ Len(cs[r].actions) <= 4
    /\ \A i \in 0..3 :
          m.actions[i] = IF i < Len(cs[r].actions) THEN cs[r].actions[i + 1]
                                                   ELSE KeyAction_No
    /\ m.output = cs[r].output

C8_MessageStep ==
    \A t \in Tasks :
        /\ ( /\ ProcessStep(t)
             /\ IsComboSet(output_data[t])
             /\ Resolves(combos, output_data[t][3]) )
           => /\ pc'[t] \in {"done", "send"}
              /\ MessageOfSlot(IF pc'[t] = "send" THEN msg'[t] ELSE Last(sent'),
                               combos', RealIndex(combos, output_data[t][3]))
              /\ pc'[t] = "done" => sent' = Append(sent, Last(sent'))
        /\ pc[t] = "send" /\ pc'[t] # "send" => sent' = Append(sent, msg[t])

\* C8: the message is the resolved slot as just stored, under its real index.
C8_Message == [][C8_MessageStep]_vars

\* a message whose real index is not the visible index of its request
C8_Witness ==
    /\ pc[1] = "done"
    /\ IsComboSet(output_data[1])
    /\ Resolves(combos, output_data[1][3])
    /\ sent # <<>>
    /\ Last(sent).idx # output_data[1][3]
    /\ MessageOfSlot(Last(sent), combos, Last(sent).idx)
    /\ Last(sent).actions[0] # KeyAction_No

(***************************************************************************)
(* C9.  The projection: for every visible index k, vial_combo and          *)
(* vial_combo_mut both return the (k+1)-th slot, in storage order, among   *)
(* the slots of at most 4 triggers, with its real position; they return    *)
(* nothing exactly when k >= the number of such slots.                     *)
(***************************************************************************)
C9_Projection ==
    \A k \in ProjIndexes \cup {4, 5} :
        /\ vial_combo(combos, k) = vial_combo_mut(combos, k)
        /\ Resolves(combos, k) => vial_combo(combos, k) = RealIndex(combos, k)
        /\ ~Resolves(combos, k) => vial_combo(combos, k) = NONE
        /\ vial_combo(combos, k) = NONE => k >= Cardinality(Eligible(combos))

\* ComboGet has answered with the slot behind two ineligible ones
C9_Witness ==
    /\ pc[1] = "done"
    /\ IsComboGet(output_data[1])
    /\ output_data[1][3] = 0
    /\ vial_combo(combos, 0) = 2
    /\ input_data[1][9] = to_via_keycode(combos[2].output)
    /\ vial_combo(combos, 1) = NONE

(***************************************************************************)
(* C10.  ComboSet writes 0 at input[0] whether or not the index resolves,  *)
(* and modifies no other byte of the response buffer, neither before its   *)
(* suspension nor when it resumes.                                         *)
(***************************************************************************)
C10_ReturnCodeStep ==
    \A t \in Tasks :
        /\ ProcessStep(t) /\ IsComboSet(output_data[t])
           => /\ pc'[t] \in {"done", "send"}
              /\ input_data'[t] = [i \in 0..31 |-> IF i = 0 THEN 0 ELSE input_data[t][i]]
        /\ pc[t] = "send" => input_data'[t] = input_data[t]

\* C10: ComboSet changes byte 0 of the response buffer to 0, and nothing else.
C10_ReturnCode == [][C10_ReturnCodeStep]_vars

\* an unresolved ComboSet has returned: 0, then the request as it was echoed
C10_Witness ==
    /\ pc[1] = "done"
    /\ IsComboSet(output_data[1])
    /\ ~Resolves(combos, output_data[1][3])
    /\ input_data[1][0] = 0
    /\ \A i \in 1..31 : input_data[1][i] = output_data[1][i]
    /\ input_data[1][1] = 13


(***************************************************************************)
(* C11.  A ComboGet whose visible index does not resolve answers 0 at      *)
(* input[0] and zero bytes in input[1..11], leaves input[11..] as it was,  *)
(* and changes neither the store nor the channel.                          *)
(***************************************************************************)
C11_UnresolvedGetStep ==
    \A t \in Tasks :
        ( /\ ProcessStep(t)
          /\ IsComboGet(output_data[t])
          /\ ~Resolves(combos, output_data[t][3]) )
        => /\ pc'[t] = "done"
           /\ input_data'[t] =
                [i \in 0..31 |-> IF i < 11 THEN 0 ELSE input_data[t][i]]
           /\ combos' = combos
           /\ channel' = channel
           /\ sent' = sent

\* C11: an unresolved ComboGet answers success and zeros, and has no effect.
C11_UnresolvedGet == [][C11_UnresolvedGetStep]_vars

\* an unresolved ComboGet has returned on a buffer of stale bytes, in a store
\* that has been edited and with a message in the channel
C11_Witness ==
    /\ pc[1] = "done"
    /\ IsComboGet(output_data[1])
    /\ ~Resolves(combos, output_data[1][3])
    /\ \A i \in 0..10 : input_data[1][i] = 0
    /\ \A i \in 11..31 : input_data[1][i] = Ramp[i]
    /\ combos # combos0
    /\ channel # <<>>


(***************************************************************************)
(* Two reports in a row.  Invocation 1 serves any number of reports, then  *)
(* invocation 2 serves the next one in a ViaReport of its own, so that the *)
(* response to the last report of invocation 1 and the response to the     *)
(* report that follows it stand side by side.                              *)
(***************************************************************************)
TwicePayloads == {<<4, 261, 0, 0, 6>>, <<0, 4, 0, 261, 6>>}

TwiceRequests ==
    {Request(13, ArrayOf(<<3, k>>)) : k \in GetIndexes}
        \cup {Request(13, Concat(ArrayOf(<<4, k>>), PayloadBytes(p))) :
                k \in {0, 1}, p \in TwicePayloads}
        \cup {Request(13, ArrayOf(<<0>>))}

HostSendFirst == pc[2] = "idle" /\ Deliver(1, TwiceRequests, MaxEdits)

HostSendSecond ==
    pc[1] = "done" /\ pc[2] = "idle" /\ Deliver(2, TwiceRequests, MaxEdits)

ProcessSecond == ProcessVial(2)

ResumeSecond == SendComplete(2)

NextTwice ==
    \/ HostSendFirst
    \/ HostSendSecond
    \/ Process
    \/ ProcessSecond
    \/ Resume
    \/ ResumeSecond
    \/ FlashReceive

SpecTwice == Init /\ [][NextTwice]_vars

(***************************************************************************)
(* C12.  Idempotence of ComboGet: a ComboGet that follows a ComboGet with  *)
(* the same index, nothing in between, answers the same bytes, and a       *)
(* ComboGet leaves the store unchanged.                                     *)
(***************************************************************************)
\* invocation 2 runs a ComboGet right after invocation 1 has returned from a
\* ComboGet with the same index
C12_SecondGet ==
    /\ ProcessStep(2)
    /\ IsComboGet(output_data[2])
    /\ pc[1] = "done"
    /\ IsComboGet(output_data[1])
    /\ output_data[1][3] = output_data[2][3]

C12_StoreKeptStep ==
    \A t \in Tasks :
        ProcessStep(t) /\ IsComboGet(output_data[t]) => combos' = combos

\* C12 as stated: the two response buffers are byte-identical.  It fails when
\* the buffers differ at entry: ComboGet writes input[0..11] alone.
C12_IdenticalBuffers ==
    [][(C12_SecondGet => input_data'[2] = input_data[1]) /\ C12_StoreKeptStep]_vars

C12_IdempotentStep ==
    /\ C12_SecondGet =>
            input_data'[2] = [i \in 0..31 |-> IF i < 11 THEN input_data[1][i]
                                                       ELSE input_data[2][i]]
    /\ C12_StoreKeptStep

\* C12, amended: the second ComboGet answers in input[0..11] the bytes the
\* first answered there and leaves input[11..] as its buffer was at entry (so
\* the buffers are identical if they were at entry); the store is unchanged.
C12_Idempotent == [][C12_IdempotentStep]_vars

\* two ComboGets in a row of a slot edited before, on buffers that held the
\* same stale bytes at entry: the same response, byte by byte
C12_Witness ==
    /\ pc[1] = "done"
    /\ pc[2] = "done"
    /\ IsComboGet(output_data[1])
    /\ output_data[2] = output_data[1]
    /\ Resolves(combos, output_data[1][3])
    /\ combos[RealIndex(combos, output_data[1][3])] #
            combos0[RealIndex(combos, output_data[1][3])]
    /\ input_data[2] = input_data[1]
    /\ input_data[1][1] # 0
    /\ input_data[1][31] = Ramp[31]


(***************************************************************************)
(* C13.  A command byte that process_vial has no arm for (a byte that      *)
(* decodes to Unhandled, such as 0x7F, or to UnlockStart, UnlockPoll,      *)
(* Lock, QmkSettingsGet, QmkSettingsSet, QmkSettingsReset) modifies        *)
(* neither the response buffer, nor the store, nor the channel.            *)
(***************************************************************************)
\* the command bytes of the arms of lines 69-257
HandledBytes == {0, 1, 2, 3, 4, 5, 9, 13}

C13_UnknownStep ==
    \A t \in Tasks :
        ProcessStep(t) /\ output_data[t][1] \notin HandledBytes
        => /\ pc'[t] = "done"
           /\ input_data' = input_data
           /\ combos' = combos
           /\ channel' = channel
           /\ sent' = sent

\* C13: an unknown or unhandled command is a no-op.
C13_Unknown == [][C13_UnknownStep]_vars

\* command 0x7F has returned on a buffer of stale bytes, which it kept, in a
\* store edited before
C13_Witness ==
    /\ pc[1] = "done"
    /\ output_data[1][1] = 127
    /\ input_data[1] = Ramp
    /\ combos # combos0
    /\ sent # <<>>


(***************************************************************************)
(* A store of COMBO_MAX_NUM slots, for the capability counts: all slots    *)
(* eligible, or slots 1 and 4 holding 5 triggers, so that 6 are.           *)
(***************************************************************************)
EntriesStores ==
    { [r \in 0..(COMBO_MAX_NUM - 1) |-> SlotOfLen(r, r % 4)],
      [r \in 0..(COMBO_MAX_NUM - 1) |->
            SlotOfLen(r, IF r \in {1, 4} THEN 5 ELSE r % 4)] }

EntriesRequests ==
    {Request(13, ArrayOf(<<0>>))}
        \cup {Request(13, ArrayOf(<<3, k>>)) : k \in {0, 5, 6, 7, 8}}
        \cup {Request(13, Concat(ArrayOf(<<4, k>>), PayloadBytes(p))) :
                k \in {1, 5, 6}, p \in TwicePayloads}

InitEntries ==
    /\ input_data = [t \in Tasks |-> NoReq]
    /\ output_data = [t \in Tasks |-> NoReq]
    /\ pc = [t \in Tasks |-> "idle"]
    /\ fault = [t \in Tasks |-> "none"]
    /\ msg = [t \in Tasks |-> NoMsg]
    /\ combos \in EntriesStores
    /\ combos0 = combos
    /\ borrow = UNUSED
    /\ channel = <<>>
    /\ vial_keyboard_def = Blob(0)
    /\ sent = <<>>
    /\ nResolved = 0
    /\ lastSet = NoReq

HostSendEntries == Deliver(1, EntriesRequests, MaxEdits)

NextEntries == HostSendEntries \/ Process \/ Resume \/ FlashReceive

SpecEntries == InitEntries /\ [][NextEntries]_vars

(***************************************************************************)
(* C14.  GetNumberOfEntries answers the fixed counts 0 (tap dance), 8      *)
(* (combo), 0 (key override) in input[0..3] in every state of the store,   *)
(* whatever the number of eligible slots, and leaves input[3..] as it was. *)
(***************************************************************************)
IsGetNumberOfEntries(out) == IsDynamic(out, "DynamicVialGetNumberOfEntries")

C14_EntriesStep ==
    \A t \in Tasks :
        ProcessStep(t) /\ IsGetNumberOfEntries(output_data[t])
        => /\ pc'[t] = "done"
           /\ input_data'[t] =
                [i \in 0..31 |->
                    CASE i = 0 -> 0
                      [] i = 1 -> 8
                      [] i = 2 -> 0
                      [] OTHER -> input_data[t][i]]
           /\ combos' = combos

\* C14: the counts are constants: 0, 8, 0.
C14_Entries == [][C14_EntriesStep]_vars

\* 8 is reported by a store of 8 slots of which 2 are ineligible, where the
\* visible indexes 0..5 resolve and 6 does not; the bytes from 3 on are stale
C14_Witness ==
    /\ pc[1] = "done"
    /\ IsGetNumberOfEntries(output_data[1])
    /\ input_data[1][1] = 8
    /\ ArrayLen(combos) = 8
    /\ Cardinality(Eligible(combos)) = 6
    /\ vial_combo(combos, 5) = 7
    /\ vial_combo(combos, 6) = NONE
    /\ combos # combos0
    /\ \A i \in 3..31 : input_data[1][i] = Ramp[i]


(***************************************************************************)
(* GetUnlockStatus with request payloads of every kind: none, 0xFF bytes,  *)
(* a payload that fills the report.                                        *)
(***************************************************************************)
UnlockPayloads ==
    { ArrayOf(<<>>), ArrayOf(<<255, 255, 255>>), ArrayOf(<<1, 0>>),
      [i \in 0..(REPORT_LEN - 3) |-> 200 - i] }

UnlockRequests ==
    {Request(5, f) : f \in UnlockPayloads}
        \cup {Request(13, ArrayOf(<<3, k>>)) : k \in {0, 2}}
        \cup {Request(13, Concat(ArrayOf(<<4, k>>), PayloadBytes(p))) :
                k \in {0, 1}, p \in TwicePayloads}

HostSendUnlock == Deliver(1, UnlockRequests, MaxEdits)

NextUnlock == HostSendUnlock \/ Process \/ Resume \/ FlashReceive

SpecUnlock == Init /\ [][NextUnlock]_vars

(***************************************************************************)
(* C15.  GetUnlockStatus always answers a buffer of 0xFF bytes except      *)
(* byte 0 = 1 and byte 1 = 0, whatever the request's payload, the bytes    *)
(* the response buffer held before and the store.                          *)
(***************************************************************************)
IsGetUnlockStatus(out) == VialCommand_from_primitive(out[1]) = "GetUnlockStatus"

UnlockedResponse ==
    [i \in 0..31 |-> CASE i = 0 -> 1 [] i = 1 -> 0 [] OTHER -> 255]

\* C15: the response of GetUnlockStatus is the canned one.
C15_UnlockStatus ==
    \A t \in Tasks :
        pc[t] = "done" /\ IsGetUnlockStatus(output_data[t])
        => input_data[t] = UnlockedResponse

\* GetUnlockStatus has answered a request with a payload, in an edited store
C15_Witness ==
    /\ pc[1] = "done"
    /\ IsGetUnlockStatus(output_data[1])
    /\ output_data[1][31] # 0
    /\ combos # combos0
    /\ input_data[1][0] = 1
    /\ input_data[1][1] = 0
    /\ input_data[1][31] = 255


(***************************************************************************)
(* C16.  A successful ComboSet stores, as the slot's trigger list, the     *)
(* decoded trigger keycodes that are not the no-action sentinel, in their  *)
(* wire order ([No, A, No, B] is stored as [A, B]): the list is as long as *)
(* there are such entries, and the stored output is the decoded output     *)
(* keycode.                                                                *)
(***************************************************************************)
\* the 4 trigger keycodes of a ComboSet request, decoded, in wire order
DecodedTriggers(out) ==
    [k \in 1..4 |-> from_via_keycode(SetTrigger(out, k - 1))]

IsAction(a) == a # KeyAction_No

C16_StoredStep ==
    \A t \in Tasks :
        ( /\ ProcessStep(t)
          /\ IsComboSet(output_data[t])
          /\ Resolves(combos, output_data[t][3]) )
        => LET r == RealIndex(combos, output_data[t][3])
               d == DecodedTriggers(output_data[t])
           IN  /\ combos'[r].actions = SelectSeq(d, IsAction)
               /\ Len(combos'[r].actions) = Cardinality({k \in 1..4 : IsAction(d[k])})
               /\ combos'[r].output = from_via_keycode(SetOutput(output_data[t]))

\* C16: the stored triggers are the non-sentinel ones, in wire order.
C16_Stored == [][C16_StoredStep]_vars

\* triggers [No, A, No, B] have been stored as [A, B]
C16_Witness ==
    /\ pc[1] = "done"
    /\ IsComboSet(output_data[1])
    /\ lastSet = output_data[1]
    /\ ~IsAction(DecodedTriggers(lastSet)[1])
    /\ IsAction(DecodedTriggers(lastSet)[2])
    /\ ~IsAction(DecodedTriggers(lastSet)[3])
    /\ IsAction(DecodedTriggers(lastSet)[4])
    /\ sent # <<>>
    /\ combos[Last(sent).idx].actions =
            <<DecodedTriggers(lastSet)[2], DecodedTriggers(lastSet)[4]>>
    /\ combos[Last(sent).idx].output = from_via_keycode(SetOutput(lastSet))


(***************************************************************************)
(* C17.  Frame of the store: a ComboSet that resolves to the real slot r   *)
(* changes slot r alone; every other command (GetKeyboardId, GetSize,      *)
(* GetKeyboardDef, GetUnlockStatus, QmkSettingsQuery, GetEncoder,          *)
(* SetEncoder, the other dynamic sub-commands, an unresolved ComboSet, an  *)
(* unknown command) leaves the whole store as it was.                      *)
(***************************************************************************)
C17_FrameStep ==
    /\ DOMAIN combos' = DOMAIN combos
    /\ \A t \in Tasks :
        ProcessStep(t) =>
            IF IsComboSet(output_data[t]) /\ Resolves(combos, output_data[t][3])
            THEN \A q \in DOMAIN combos :
                    q # RealIndex(combos, output_data[t][3]) => combos'[q] = combos[q]
            ELSE combos' = combos
    /\ (\A t \in Tasks : ~ProcessStep(t)) => combos' = combos

\* C17: only a resolved ComboSet writes the store, and only its slot.
C17_Frame == [][C17_FrameStep]_vars

\* a ComboSet has rewritten the slot its index resolves to, whose real index
\* is not the visible one, and SetEncoder has returned since: every other
\* slot is as at start
C17_Witness ==
    /\ pc[1] = "done"
    /\ VialCommand_from_primitive(output_data[1][1]) = "SetEncoder"
    /\ IsComboSet(lastSet)
    /\ sent # <<>>
    /\ Last(sent).idx # lastSet[3]
    /\ combos[Last(sent).idx] # combos0[Last(sent).idx]
    /\ \A q \in DOMAIN combos : q # Last(sent).idx => combos[q] = combos0[q]


(***************************************************************************)
(* C18.  Eligibility is invariant: in every reachable state the eligible   *)
(* slots (at most 4 triggers) are those that were eligible at start, since *)
(* ComboSet writes eligible slots only and leaves them with at most 4      *)
(* triggers.  So a visible index stands for the same real index in every   *)
(* reachable state, for ComboGet and for ComboSet alike.                   *)
(***************************************************************************)
\* C18: the eligible slots, and the projection, are those of the start.
C18_Eligibility ==
    /\ Eligible(combos) = Eligible(combos0)
    /\ \A r \in Eligible(combos) : Len(combos[r].actions) <= 4
    /\ \A k \in ProjIndexes \cup {4, 5} :
        /\ vial_combo(combos, k) = vial_combo(combos0, k)
        /\ vial_combo_mut(combos, k) = vial_combo_mut(combos0, k)

\* after two edits of a store whose slot 0 is ineligible, ComboGet answers
\* with the slot the last ComboSet of the same visible index wrote
C18_Witness ==
    /\ pc[1] = "done"
    /\ IsComboGet(output_data[1])
    /\ IsComboSet(lastSet)
    /\ output_data[1][3] = lastSet[3]
    /\ nResolved = 2
    /\ 0 \notin Eligible(combos0)
    /\ Len(combos[0].actions) = 5
    /\ sent # <<>>
    /\ vial_combo(combos, output_data[1][3]) = Last(sent).idx
    /\ vial_combo(combos0, output_data[1][3]) = Last(sent).idx
    /\ combos[Last(sent).idx] # combos0[Last(sent).idx]


(***************************************************************************)
(* What the persistence task makes of a message: the slot of index idx     *)
(* gets the message's triggers, the padding taken off, and its output.     *)
(***************************************************************************)
ApplyMessage(cs, m) ==
    [cs EXCEPT ![m.idx] =
        [actions |-> SelectSeq([k \in 1..4 |-> m.actions[k - 1]], IsAction),
         output |-> m.output]]

RECURSIVE ApplyMessages(_, _)
ApplyMessages(cs, q) ==
    IF q = <<>> THEN cs ELSE ApplyMessages(ApplyMessage(cs, Head(q)), Tail(q))

(***************************************************************************)
(* C19.  The store and the messages agree: with one report processed at a  *)
(* time, in every state between two calls the store is the store of the    *)
(* start with the submitted messages applied in the order of submission;   *)
(* for every slot edited, the last message of its index is the slot as it  *)
(* stands, padded; and a message is submitted only once its slot has been  *)
(* written.                                                                *)
(***************************************************************************)
BetweenCalls == pc[1] \in {"idle", "done"}

\* the last message submitted for slot r
LastMessageOf(r) ==
    sent[CHOOSE i \in 1..Len(sent) :
            /\ sent[i].idx = r
            /\ \A j \in (i + 1)..Len(sent) : sent[j].idx # r]

C19_Agree ==
    BetweenCalls =>
        /\ ApplyMessages(combos0, sent) = combos
        /\ \A r \in DOMAIN combos :
            IF \E i \in 1..Len(sent) : sent[i].idx = r
            THEN MessageOfSlot(LastMessageOf(r), combos, r)
            ELSE combos[r] = combos0[r]

C19_SubmitStep ==
    sent' # sent => MessageOfSlot(Last(sent'), combos, Last(sent').idx)
                    \/ /\ combos' # combos
                       /\ MessageOfSlot(Last(sent'), combos', Last(sent').idx)

\* C19: the messages submitted, applied in order, give the store.
C19_Consistency == []C19_Agree /\ [][C19_SubmitStep]_vars

\* between two calls, after two edits of one slot, the second of 4 triggers:
\* the last message is the slot, the first no longer is
C19_Witness ==
    /\ BetweenCalls
    /\ Len(sent) = 2
    /\ sent[1].idx = sent[2].idx
    /\ sent[1] # sent[2]
    /\ sent[2].actions[3] # KeyAction_No
    /\ MessageOfSlot(sent[2], combos, sent[2].idx)
    /\ ~MessageOfSlot(sent[1], combos, sent[1].idx)
    /\ ApplyMessages(combos0, sent) = combos


(***************************************************************************)
(* Progress.  The executor polls a sender that has been woken, and the     *)
(* persistence task receives whatever the channel holds: both are weakly   *)
(* fair.  The channel is full at start.                                    *)
(***************************************************************************)
InitLive == InitWith({70}, {<<OtherMsg>>})

HostSendLive == Deliver(1, ReentrantRequests, MaxEdits)

NextLive == HostSendLive \/ Process \/ Resume \/ FlashReceive

SpecLive ==
    /\ InitLive
    /\ [][NextLive]_vars
    /\ WF_vars(Resume)
    /\ WF_vars(FlashReceive)

(***************************************************************************)
(* C20.  Termination: every command but a resolved ComboSet returns        *)
(* without suspending.  A resolved ComboSet that suspends at the send has  *)
(* written the store and the success byte; it does not return as long as   *)
(* the channel is full; it returns once the persistence task has received  *)
(* from the channel, which it does if that task is fair; and it returns    *)
(* with its message still in the channel, not waiting for it to be         *)
(* processed.                                                              *)
(***************************************************************************)
ChannelFull == Len(channel) >= ChannelCap

C20_Step ==
    /\ ( /\ ProcessStep(1)
         /\ ~(IsComboSet(output_data[1]) /\ Resolves(combos, output_data[1][3])) )
       => pc'[1] = "done"
    /\ ProcessStep(1) /\ pc'[1] = "send" => ChannelFull
    /\ pc[1] = "send" /\ ChannelFull => pc'[1] = "send"
    /\ pc[1] = "send" /\ pc'[1] # "send"
       => /\ pc'[1] = "done"
          /\ channel' # <<>>
          /\ Last(channel') = msg[1]
          /\ combos' = combos
          /\ input_data' = input_data

C20_Suspended ==
    pc[1] = "send" =>
        /\ IsComboSet(output_data[1])
        /\ input_data[1][0] = 0
        /\ MessageOfSlot(msg[1], combos, msg[1].idx)
        /\ combos[msg[1].idx].actions = DecodeActions(output_data[1], 0, <<>>)

\* C20: only a resolved ComboSet suspends, after its edit; it returns when
\* and only when the channel has room.
C20_Termination ==
    /\ [][C20_Step]_vars
    /\ []C20_Suspended
    /\ (pc[1] = "send") ~> (pc[1] = "done")

\* a resolved ComboSet is suspended at the send, the channel full: the slot
\* is written, the success byte too
C20_Witness ==
    /\ pc[1] = "send"
    /\ ChannelFull
    /\ combos # combos0
    /\ input_data[1][0] = 0
    /\ input_data[1][1] = Ramp[1]
    /\ combos[msg[1].idx] # combos0[msg[1].idx]
    /\ Len(sent) < nResolved

=============================================================================
